---------------------------- MODULE Spec2Model ----------------------------
(***************************************************************************)
(* A model of modbus_tk/utils.py: the WorkerThread lifecycle, the          *)
(* threadsafe_function decorator and the SerialSocketEmulator adapter.     *)
(*                                                                         *)
(* Library behaviour is modelled by its documented contract:               *)
(*   - threading.Event: set / clear / isSet are atomic;                    *)
(*   - threading.Thread.start() starts the thread's activity at most once  *)
(*     per Thread object and raises RuntimeError when called again;        *)
(*     isAlive() is true from the moment start() took effect until run()   *)
(*     has terminated; join() returns once the thread has terminated;      *)
(*   - threading.Lock: acquire() blocks while the lock is held, release()  *)
(*     frees it.                                                           *)
(* The callables handed to WorkerThread and the network peer are the       *)
(* environment: each invocation returns or raises, chosen freely.          *)
(***************************************************************************)
EXTENDS Integers, Sequences, FiniteSets, TLC

\* ------------------------------------------------------------------ bounds
\* Threads that call start() / stop() on the one WorkerThread instance.
NumCallers == 2
\* Calls of start() and stop() made in all.
MaxCalls == 3
\* Invocations of main_fct after which the model stops following the loop.
MaxMain == 2
\* Threads of control the model can follow executing _run.
MaxThreads == 2

\* Threads that call the function wrapped by threadsafe_function.
NumThreads == 3

\* Sockets the adapter may create.
MaxSockets == 3
\* Longest byte string written to or delivered by a socket.
MaxLen == 2
\* Polls of the socket the environment answers during one flush.
MaxPolls == 4

\* Longest byte sequence handed to calculate_crc.
MaxData == 6

\* Calls of new() a thread makes from inside fcn, one within the other.
MaxNest == 1

\* flushInput: flush_socket(self._sock, 3)
FlushLimit == 3

Callers == 1..NumCallers
Threads == 1..NumThreads
Workers == 1..MaxThreads

\* Exceptions a callable can raise: an Exception (caught by "except
\* Exception") or a BaseException that is not an Exception (SystemExit ...).
ExcKinds == {"Exception", "BaseException"}

VARIABLES
    \* ---- WorkerThread
    fcts,          \* self._fcts as <<init given, main given, exit given>>
    go,            \* self._go (threading.Event): TRUE when set
    thread,        \* self._thread: "initial", "started" (alive) or "stopped"
    spawned,       \* threads of control created for _run so far
    wpc,           \* position of each thread of control inside _run
    wexc,          \* exception in flight inside _run, per thread of control
    initCalls,     \* invocations of init_fct begun
    mainCalls,     \* invocations of main_fct begun
    exitCalls,     \* invocations of exit_fct begun
    loopEnd,       \* why the loop was left: "none", "flag", "init", "main"
    logged,        \* LOGGER.error calls made by _run
    escaped,       \* exception that left _run (to the thread's bootstrap)
    cpc,           \* position of each caller inside start() / stop()
    ncalls,        \* calls of start() and stop() made so far
    cres,          \* outcome of each caller's last call
    csaw,          \* what the current stop() call found when it was made
    stopsReturned, \* for every stop() call that returned, what it had found
    \* ---- threadsafe_function
    locked,        \* the lock made at wrap time: TRUE while acquired
    holder,        \* the thread whose acquire() took the lock, 0 when free
    counter,       \* the shared counter the wrapped function increments
    tpc,           \* position of each thread inside new()
    tmp,           \* the value of the counter each thread has read
    fexc,          \* what fcn raised in each thread's call, "none" if nothing
    texc,          \* exception in flight inside new(), per thread
    tres,          \* how each thread's call of new() ended
    tstack,        \* per thread, the calls of new() suspended inside fcn
    \* ---- SerialSocketEmulator
    sock,          \* self._sock: 0 for None, else the socket held
    socks,         \* every socket: "none" (not created), "unconnected",
                   \* "connected" or "closed"
    op,            \* the last operation called on the adapter
    arg,           \* its argument
    env,           \* what the socket layer answered during it
    ret,           \* what it returned
    exc,           \* the exception it raised to its caller, "none" if none
    calls,         \* the socket-layer calls it made, in order
    accepted,      \* the chunks the socket accepted during it, in order
    logs           \* the levels of the log records it emitted, in order

workerVars == <<fcts, go, thread, spawned, wpc, wexc, initCalls, mainCalls,
                exitCalls, loopEnd, logged, escaped, cpc, ncalls, cres, csaw,
                stopsReturned>>

lockVars == <<locked, holder, counter, tpc, tmp, fexc, texc, tres, tstack>>

\* calculate_crc and swap_bytes
VARIABLES
    crcData,       \* the bytes last handed to calculate_crc
    crcRet,        \* what calculate_crc returned for them
    swapArg,       \* the word last handed to swap_bytes
    swapRet,       \* what swap_bytes returned for it
    swapBack       \* what swap_bytes returned for swapRet

adapterVars == <<sock, socks, op, arg, env, ret, exc, calls, accepted, logs>>

crcVars == <<crcData, crcRet, swapArg, swapRet, swapBack>>

vars == <<workerVars, lockVars, adapterVars, crcVars>>

\* ------------------------------------------------------------ WorkerThread

NoSnapshot == [started |-> FALSE, alive |-> FALSE, failed |-> FALSE]

\* WorkerThread.__init__: the three callables, one Thread object, one Event.
WorkerInit ==
    /\ fcts \in {<<i, TRUE, e>> : i \in BOOLEAN, e \in BOOLEAN}
    /\ go = FALSE
    /\ thread = "initial"
    /\ spawned = 0
    /\ wpc = [w \in Workers |-> "unborn"]
    /\ wexc = [w \in Workers |-> "none"]
    /\ initCalls = 0
    /\ mainCalls = 0
    /\ exitCalls = 0
    /\ loopEnd = "none"
    /\ logged = 0
    /\ escaped = "none"
    /\ cpc = [c \in Callers |-> "idle"]
    /\ ncalls = 0
    /\ cres = [c \in Callers |-> "none"]
    /\ csaw = [c \in Callers |-> NoSnapshot]
    /\ stopsReturned = {}

\* self._thread.isAlive()
isAlive == thread = "started"

\* start(), first statement: self._go.set()
StartSetGo(c) ==
    /\ cpc[c] = "idle"
    /\ ncalls < MaxCalls
    /\ go' = TRUE
    /\ cpc' = [cpc EXCEPT ![c] = "start_thread"]
    /\ ncalls' = ncalls + 1
    /\ cres' = [cres EXCEPT ![c] = "none"]
    /\ UNCHANGED <<fcts, thread, spawned, wpc, wexc, initCalls, mainCalls,
                   exitCalls, loopEnd, logged, escaped, csaw, stopsReturned>>
    /\ UNCHANGED <<lockVars, adapterVars, crcVars>>

\* As StartThread, had start() made a new Thread object on every call: each
\* call starts one more thread of control.
StartThreadAnew(c) ==
    /\ cpc[c] = "start_thread"
    /\ spawned < MaxThreads
    /\ thread' = "started"
    /\ spawned' = spawned + 1
    /\ wpc' = [wpc EXCEPT ![spawned + 1] = "try"]
    /\ cres' = [cres EXCEPT ![c] = "returned"]
    /\ cpc' = [cpc EXCEPT ![c] = "idle"]
    /\ UNCHANGED <<fcts, go, wexc, initCalls, mainCalls, exitCalls, loopEnd,
                   logged, escaped, ncalls, csaw, stopsReturned>>
    /\ UNCHANGED <<lockVars, adapterVars, crcVars>>

\* start(), second statement: self._thread.start(). The Thread object is the
\* one made in __init__: it starts its activity once and raises RuntimeError
\* on every later call.
StartThread(c) ==
    /\ cpc[c] = "start_thread"
    /\ \/ /\ thread = "initial"
          /\ spawned < MaxThreads
          /\ thread' = "started"
          /\ spawned' = spawned + 1
          /\ wpc' = [wpc EXCEPT ![spawned + 1] = "try"]
          /\ cres' = [cres EXCEPT ![c] = "returned"]
       \/ /\ thread # "initial"
          /\ cres' = [cres EXCEPT ![c] = "RuntimeError"]
          /\ UNCHANGED <<thread, spawned, wpc>>
    /\ cpc' = [cpc EXCEPT ![c] = "idle"]
    /\ UNCHANGED <<fcts, go, wexc, initCalls, mainCalls, exitCalls, loopEnd,
                   logged, escaped, ncalls, csaw, stopsReturned>>
    /\ UNCHANGED <<lockVars, adapterVars, crcVars>>

\* As StopCheck, without the test: stop() goes on to clear the flag and to
\* join whatever the thread's state.
StopCheckUntested(c) ==
    /\ cpc[c] = "idle"
    /\ ncalls < MaxCalls
    /\ ncalls' = ncalls + 1
    /\ cpc' = [cpc EXCEPT ![c] = "stop_clear"]
    /\ csaw' = [csaw EXCEPT ![c] = [started |-> thread # "initial",
                                     alive   |-> isAlive,
                                     failed  |-> loopEnd \in {"init", "main"}]]
    /\ cres' = [cres EXCEPT ![c] = "none"]
    /\ UNCHANGED stopsReturned
    /\ UNCHANGED <<fcts, go, thread, spawned, wpc, wexc, initCalls, mainCalls,
                   exitCalls, loopEnd, logged, escaped>>
    /\ UNCHANGED <<lockVars, adapterVars, crcVars>>

\* stop(), the test "if self._thread.isAlive()": a thread that is not alive
\* makes stop() return at once.
StopCheck(c) ==
    /\ cpc[c] = "idle"
    /\ ncalls < MaxCalls
    /\ ncalls' = ncalls + 1
    /\ LET found == [started |-> thread # "initial",
                     alive   |-> isAlive,
                     failed  |-> loopEnd \in {"init", "main"}]
       IN  IF isAlive
           THEN /\ cpc' = [cpc EXCEPT ![c] = "stop_clear"]
                /\ csaw' = [csaw EXCEPT ![c] = found]
                /\ cres' = [cres EXCEPT ![c] = "none"]
                /\ UNCHANGED stopsReturned
           ELSE /\ cpc' = [cpc EXCEPT ![c] = "idle"]
                /\ cres' = [cres EXCEPT ![c] = "returned"]
                /\ stopsReturned' = stopsReturned \cup {found}
                /\ UNCHANGED csaw
    /\ UNCHANGED <<fcts, go, thread, spawned, wpc, wexc, initCalls, mainCalls,
                   exitCalls, loopEnd, logged, escaped>>
    /\ UNCHANGED <<lockVars, adapterVars, crcVars>>

\* As StopClear, with the clear() forgotten.
StopClearForgotten(c) ==
    /\ cpc[c] = "stop_clear"
    /\ cpc' = [cpc EXCEPT ![c] = "stop_join"]
    /\ UNCHANGED <<fcts, go, thread, spawned, wpc, wexc, initCalls, mainCalls,
                   exitCalls, loopEnd, logged, escaped, ncalls, cres, csaw,
                   stopsReturned>>
    /\ UNCHANGED <<lockVars, adapterVars, crcVars>>

\* stop(): self._go.clear()
StopClear(c) ==
    /\ cpc[c] = "stop_clear"
    /\ go' = FALSE
    /\ cpc' = [cpc EXCEPT ![c] = "stop_join"]
    /\ UNCHANGED <<fcts, thread, spawned, wpc, wexc, initCalls, mainCalls,
                   exitCalls, loopEnd, logged, escaped, ncalls, cres, csaw,
                   stopsReturned>>
    /\ UNCHANGED <<lockVars, adapterVars, crcVars>>

\* As StopJoin, without waiting for the thread to terminate.
StopJoinNoWait(c) ==
    /\ cpc[c] = "stop_join"
    /\ cpc' = [cpc EXCEPT ![c] = "idle"]
    /\ cres' = [cres EXCEPT ![c] = "returned"]
    /\ stopsReturned' = stopsReturned \cup {csaw[c]}
    /\ csaw' = [csaw EXCEPT ![c] = NoSnapshot]
    /\ UNCHANGED <<fcts, go, thread, spawned, wpc, wexc, initCalls, mainCalls,
                   exitCalls, loopEnd, logged, escaped, ncalls>>
    /\ UNCHANGED <<lockVars, adapterVars, crcVars>>

\* stop(): self._thread.join() returns once the thread has terminated.
StopJoin(c) ==
    /\ cpc[c] = "stop_join"
    /\ thread = "stopped"
    /\ cpc' = [cpc EXCEPT ![c] = "idle"]
    /\ cres' = [cres EXCEPT ![c] = "returned"]
    /\ stopsReturned' = stopsReturned \cup {csaw[c]}
    /\ csaw' = [csaw EXCEPT ![c] = NoSnapshot]
    /\ UNCHANGED <<fcts, go, thread, spawned, wpc, wexc, initCalls, mainCalls,
                   exitCalls, loopEnd, logged, escaped, ncalls>>
    /\ UNCHANGED <<lockVars, adapterVars, crcVars>>

\* The end of _run on thread of control w: an exception still in flight
\* leaves _run for the thread's bootstrap, and the thread has terminated.
Terminate(w, e) ==
    /\ wpc' = [wpc EXCEPT ![w] = "done"]
    /\ wexc' = [wexc EXCEPT ![w] = "none"]
    /\ escaped' = e
    /\ thread' = "stopped"

\* _run: "if self._fcts[0]: self._fcts[0](*self._args)", the call begins.
RunInit(w) ==
    /\ wpc[w] = "try"
    /\ IF fcts[1]
       THEN /\ wpc' = [wpc EXCEPT ![w] = "in_init"]
            /\ initCalls' = initCalls + 1
       ELSE /\ wpc' = [wpc EXCEPT ![w] = "loop"]
            /\ UNCHANGED initCalls
    /\ UNCHANGED <<fcts, go, thread, spawned, wexc, mainCalls, exitCalls,
                   loopEnd, logged, escaped, cpc, ncalls, cres, csaw,
                   stopsReturned>>
    /\ UNCHANGED <<lockVars, adapterVars, crcVars>>

\* init_fct returns: on to the loop.
InitReturn(w) ==
    /\ wpc[w] = "in_init"
    /\ wpc' = [wpc EXCEPT ![w] = "loop"]
    /\ UNCHANGED <<fcts, go, thread, spawned, wexc, initCalls, mainCalls,
                   exitCalls, loopEnd, logged, escaped, cpc, ncalls, cres,
                   csaw, stopsReturned>>
    /\ UNCHANGED <<lockVars, adapterVars, crcVars>>

\* Where an exception of kind k raised inside the try block goes: to the
\* "except Exception" clause, or past it to the finally clause.
Handler(k) == IF k = "Exception" THEN "except" ELSE "finally"

\* init_fct raises.
InitRaise(w, k) ==
    /\ wpc[w] = "in_init"
    /\ wpc' = [wpc EXCEPT ![w] = Handler(k)]
    /\ wexc' = [wexc EXCEPT ![w] = k]
    /\ loopEnd' = "init"
    /\ UNCHANGED <<fcts, go, thread, spawned, initCalls, mainCalls, exitCalls,
                   logged, escaped, cpc, ncalls, cres, csaw, stopsReturned>>
    /\ UNCHANGED <<lockVars, adapterVars, crcVars>>

\* "while self._go.isSet(): self._fcts[1](*self._args)": the test, and the
\* call of main_fct begins when the flag is set.
LoopTest(w) ==
    /\ wpc[w] = "loop"
    /\ IF go
       THEN /\ mainCalls < MaxMain
            /\ wpc' = [wpc EXCEPT ![w] = "in_main"]
            /\ mainCalls' = mainCalls + 1
            /\ UNCHANGED loopEnd
       ELSE /\ wpc' = [wpc EXCEPT ![w] = "finally"]
            /\ loopEnd' = "flag"
            /\ UNCHANGED mainCalls
    /\ UNCHANGED <<fcts, go, thread, spawned, wexc, initCalls, exitCalls,
                   logged, escaped, cpc, ncalls, cres, csaw, stopsReturned>>
    /\ UNCHANGED <<lockVars, adapterVars, crcVars>>

\* main_fct returns: back to the test of the loop.
MainReturn(w) ==
    /\ wpc[w] = "in_main"
    /\ wpc' = [wpc EXCEPT ![w] = "loop"]
    /\ UNCHANGED <<fcts, go, thread, spawned, wexc, initCalls, mainCalls,
                   exitCalls, loopEnd, logged, escaped, cpc, ncalls, cres,
                   csaw, stopsReturned>>
    /\ UNCHANGED <<lockVars, adapterVars, crcVars>>

\* As MainRaise, had the try statement been inside the while loop: the loop
\* goes on after the exception.
MainRaiseResumes(w, k) ==
    /\ wpc[w] = "in_main"
    /\ wpc' = [wpc EXCEPT ![w] = "loop"]
    /\ loopEnd' = "main"
    /\ UNCHANGED <<fcts, go, thread, spawned, wexc, initCalls, mainCalls,
                   exitCalls, logged, escaped, cpc, ncalls, cres, csaw,
                   stopsReturned>>
    /\ UNCHANGED <<lockVars, adapterVars, crcVars>>

\* main_fct raises.
MainRaise(w, k) ==
    /\ wpc[w] = "in_main"
    /\ wpc' = [wpc EXCEPT ![w] = Handler(k)]
    /\ wexc' = [wexc EXCEPT ![w] = k]
    /\ loopEnd' = "main"
    /\ UNCHANGED <<fcts, go, thread, spawned, initCalls, mainCalls, exitCalls,
                   logged, escaped, cpc, ncalls, cres, csaw, stopsReturned>>
    /\ UNCHANGED <<lockVars, adapterVars, crcVars>>

\* As Except, had exit_fct been called after the loop instead of in a finally
\* clause: a caught exception ends _run without it.
ExceptSkipsExit(w) ==
    /\ wpc[w] = "except"
    /\ Terminate(w, "none")
    /\ logged' = logged + 1
    /\ UNCHANGED <<fcts, go, spawned, initCalls, mainCalls, exitCalls,
                   loopEnd, cpc, ncalls, cres, csaw, stopsReturned>>
    /\ UNCHANGED <<lockVars, adapterVars, crcVars>>

\* "except Exception, excpt: LOGGER.error(...)": the exception is logged and
\* dropped; control goes on to the finally clause.
Except(w) ==
    /\ wpc[w] = "except"
    /\ wpc' = [wpc EXCEPT ![w] = "finally"]
    /\ wexc' = [wexc EXCEPT ![w] = "none"]
    /\ logged' = logged + 1
    /\ UNCHANGED <<fcts, go, thread, spawned, initCalls, mainCalls, exitCalls,
                   loopEnd, escaped, cpc, ncalls, cres, csaw, stopsReturned>>
    /\ UNCHANGED <<lockVars, adapterVars, crcVars>>

\* "finally: if self._fcts[2]: self._fcts[2](*self._args)", the call begins;
\* without an exit_fct _run ends here.
Finally(w) ==
    /\ wpc[w] = "finally"
    /\ IF fcts[3]
       THEN /\ wpc' = [wpc EXCEPT ![w] = "in_exit"]
            /\ exitCalls' = exitCalls + 1
            /\ UNCHANGED <<wexc, escaped, thread>>
       ELSE /\ Terminate(w, wexc[w])
            /\ UNCHANGED exitCalls
    /\ UNCHANGED <<fcts, go, spawned, initCalls, mainCalls, loopEnd, logged,
                   cpc, ncalls, cres, csaw, stopsReturned>>
    /\ UNCHANGED <<lockVars, adapterVars, crcVars>>

\* As ExitReturn, had the try statement been inside the while loop: after
\* exit_fct the loop is tested again.
ExitReturnLoops(w) ==
    /\ wpc[w] = "in_exit"
    /\ wpc' = [wpc EXCEPT ![w] = "loop"]
    /\ UNCHANGED <<fcts, go, thread, spawned, wexc, initCalls, mainCalls,
                   exitCalls, loopEnd, logged, escaped, cpc, ncalls, cres,
                   csaw, stopsReturned>>
    /\ UNCHANGED <<lockVars, adapterVars, crcVars>>

\* exit_fct returns: _run ends.
ExitReturn(w) ==
    /\ wpc[w] = "in_exit"
    /\ Terminate(w, wexc[w])
    /\ UNCHANGED <<fcts, go, spawned, initCalls, mainCalls, exitCalls,
                   loopEnd, logged, cpc, ncalls, cres, csaw, stopsReturned>>
    /\ UNCHANGED <<lockVars, adapterVars, crcVars>>

\* exit_fct raises: its exception replaces the one in flight and leaves _run.
ExitRaise(w, k) ==
    /\ wpc[w] = "in_exit"
    /\ Terminate(w, k)
    /\ UNCHANGED <<fcts, go, spawned, initCalls, mainCalls, exitCalls,
                   loopEnd, logged, cpc, ncalls, cres, csaw, stopsReturned>>
    /\ UNCHANGED <<lockVars, adapterVars, crcVars>>

\* One step of a thread of control executing WorkerThread._run.
RunStep(w) ==
    \/ RunInit(w)
    \/ InitReturn(w)
    \/ \E k \in ExcKinds : InitRaise(w, k)
    \/ LoopTest(w)
    \/ MainReturn(w)
    \/ \E k \in ExcKinds : MainRaise(w, k)
    \/ Except(w)
    \/ Finally(w)
    \/ ExitReturn(w)
    \/ \E k \in ExcKinds : ExitRaise(w, k)

\* One step of a caller inside start() or stop().
CallerStep(c) ==
    \/ StartSetGo(c)
    \/ StartThread(c)
    \/ StopCheck(c)
    \/ StopClear(c)
    \/ StopJoin(c)

WorkerNext ==
    \/ \E c \in Callers : CallerStep(c)
    \/ \E w \in Workers : RunStep(w)

\* ----------------------------------------------------- threadsafe_function
\* One function wrapped once: "lock = threading.Lock()" runs at wrap time, so
\* every call of new() uses the same lock. The wrapped function fcn is a
\* read-increment-write of a shared counter that may raise instead of
\* writing; each thread calls new() once.

\* threadsafe_function(fcn): the lock is made, free.
LockInit ==
    /\ locked = FALSE
    /\ holder = 0
    /\ counter = 0
    /\ tpc = [t \in Threads |-> "idle"]
    /\ tmp = [t \in Threads |-> 0]
    /\ fexc = [t \in Threads |-> "none"]
    /\ texc = [t \in Threads |-> "none"]
    /\ tres = [t \in Threads |-> "none"]
    /\ tstack = [t \in Threads |-> <<>>]

\* A thread calls new(): it is about to execute lock.acquire().
Call(t) ==
    /\ tpc[t] = "idle"
    /\ tpc' = [tpc EXCEPT ![t] = "acquire"]
    /\ UNCHANGED <<locked, holder, counter, tmp, fexc, texc, tres, tstack>>
    /\ UNCHANGED <<workerVars, adapterVars, crcVars>>

\* As Acquire, had the lock been made inside new(): every call locks a lock
\* of its own and never waits.
AcquireOwnLock(t) ==
    /\ tpc[t] = "acquire"
    /\ locked' = TRUE
    /\ holder' = t
    /\ tpc' = [tpc EXCEPT ![t] = "read"]
    /\ UNCHANGED <<counter, tmp, fexc, texc, tres, tstack>>
    /\ UNCHANGED <<workerVars, adapterVars, crcVars>>

\* lock.acquire(): blocks while the lock is held, then takes it; the thread
\* enters "try: ret = fcn(*args, **kwargs)".
Acquire(t) ==
    /\ tpc[t] = "acquire"
    /\ ~locked
    /\ locked' = TRUE
    /\ holder' = t
    /\ tpc' = [tpc EXCEPT ![t] = "read"]
    /\ UNCHANGED <<counter, tmp, fexc, texc, tres, tstack>>
    /\ UNCHANGED <<workerVars, adapterVars, crcVars>>

\* fcn: reads the shared counter.
FcnRead(t) ==
    /\ tpc[t] = "read"
    /\ tmp' = [tmp EXCEPT ![t] = counter]
    /\ tpc' = [tpc EXCEPT ![t] = "write"]
    /\ UNCHANGED <<locked, holder, counter, fexc, texc, tres, tstack>>
    /\ UNCHANGED <<workerVars, adapterVars, crcVars>>

\* fcn: writes the value read plus one and returns; new() goes on to its
\* finally clause.
FcnWrite(t) ==
    /\ tpc[t] = "write"
    /\ counter' = tmp[t] + 1
    /\ tpc' = [tpc EXCEPT ![t] = "finally"]
    /\ UNCHANGED <<locked, holder, tmp, fexc, texc, tres, tstack>>
    /\ UNCHANGED <<workerVars, adapterVars, crcVars>>

\* fcn raises e before it has written: an Exception goes to the except
\* clause of new(), any other exception straight to its finally clause.
FcnRaise(t, e) ==
    /\ tpc[t] \in {"read", "write"}
    /\ fexc' = [fexc EXCEPT ![t] = e]
    /\ texc' = [texc EXCEPT ![t] = e]
    /\ tpc' = [tpc EXCEPT ![t] = Handler(e)]
    /\ UNCHANGED <<locked, holder, counter, tmp, tres, tstack>>
    /\ UNCHANGED <<workerVars, adapterVars, crcVars>>

\* "except Exception, excpt: raise excpt": the exception caught is raised
\* again.
Reraise(t) ==
    /\ tpc[t] = "except"
    /\ texc' = [texc EXCEPT ![t] = texc[t]]
    /\ tpc' = [tpc EXCEPT ![t] = "finally"]
    /\ UNCHANGED <<locked, holder, counter, tmp, fexc, tres, tstack>>
    /\ UNCHANGED <<workerVars, adapterVars, crcVars>>

\* What the caller of new() gets: the exception in flight, or ret.
Outcome(e) == IF e = "none" THEN "returned" ELSE e

\* new() returns ret or lets the exception in flight leave it: to the thread's
\* caller, or, for a call made from inside fcn, to the suspended fcn, which
\* goes on where it was or has the exception raised in it.
Return(t) ==
    IF tstack[t] = <<>>
    THEN /\ tres' = [tres EXCEPT ![t] = Outcome(texc[t])]
         /\ texc' = [texc EXCEPT ![t] = "none"]
         /\ tpc' = [tpc EXCEPT ![t] = "done"]
         /\ UNCHANGED <<tmp, tstack>>
    ELSE LET frame == Head(tstack[t])
         IN  /\ tstack' = [tstack EXCEPT ![t] = Tail(tstack[t])]
             /\ tmp' = [tmp EXCEPT ![t] = frame.tmp]
             /\ tpc' = [tpc EXCEPT ![t] = IF texc[t] = "none" THEN frame.pc
                                          ELSE Handler(texc[t])]
             /\ UNCHANGED <<tres, texc>>

\* As Release, had lock.release() followed the call instead of standing in a
\* finally clause: an exception leaves new() with the lock still held.
ReleaseUnlessRaised(t) ==
    /\ tpc[t] = "finally"
    /\ IF texc[t] = "none"
       THEN locked' = FALSE /\ holder' = 0
       ELSE UNCHANGED <<locked, holder>>
    /\ Return(t)
    /\ UNCHANGED <<counter, fexc>>
    /\ UNCHANGED <<workerVars, adapterVars, crcVars>>

\* "finally: lock.release()", and new() returns ret or lets the exception
\* in flight reach its caller.
Release(t) ==
    /\ tpc[t] = "finally"
    /\ locked' = FALSE
    /\ holder' = 0
    /\ Return(t)
    /\ UNCHANGED <<counter, fexc>>
    /\ UNCHANGED <<workerVars, adapterVars, crcVars>>

\* As FcnCallsNew, had fcn called itself and not the function that
\* threadsafe_function returned: the inner call takes no lock.
FcnCallsFcn(t) ==
    /\ tpc[t] \in {"read", "write"}
    /\ Len(tstack[t]) < MaxNest
    /\ tstack' = [tstack EXCEPT
                     ![t] = <<[pc |-> tpc[t], tmp |-> tmp[t]]>> \o tstack[t]]
    /\ tpc' = [tpc EXCEPT ![t] = "read"]
    /\ UNCHANGED <<locked, holder, counter, tmp, fexc, texc, tres>>
    /\ UNCHANGED <<workerVars, adapterVars, crcVars>>

\* fcn, while it executes inside new(), calls new() again on the same thread:
\* the call in progress is suspended and the thread is about to execute
\* lock.acquire() of the one lock.
FcnCallsNew(t) ==
    /\ tpc[t] \in {"read", "write"}
    /\ Len(tstack[t]) < MaxNest
    /\ tstack' = [tstack EXCEPT
                     ![t] = <<[pc |-> tpc[t], tmp |-> tmp[t]]>> \o tstack[t]]
    /\ tpc' = [tpc EXCEPT ![t] = "acquire"]
    /\ UNCHANGED <<locked, holder, counter, tmp, fexc, texc, tres>>
    /\ UNCHANGED <<workerVars, adapterVars, crcVars>>

\* One step of a thread inside new().
LockStep(t) ==
    \/ Call(t)
    \/ Acquire(t)
    \/ FcnRead(t)
    \/ FcnWrite(t)
    \/ \E e \in ExcKinds : FcnRaise(t, e)
    \/ Reraise(t)
    \/ Release(t)

LockNext == \E t \in Threads : LockStep(t)

\* The same with a wrapped function that may call new() again.
ReentrantNext ==
    \/ LockNext
    \/ \E t \in Threads : FcnCallsNew(t)

\* ---------------------------------------------------- SerialSocketEmulator
\* The adapter is driven by one thread; every operation is one step. The
\* network is the environment: it decides whether connect() succeeds, what
\* each recv() and send() does and what each select() reports.

Sockets == 1..MaxSockets
Bytes == {"a", "b"}

\* The byte strings of length at most n.
Strings(n) == UNION {[1..k -> Bytes] : k \in 0..n}

Min(a, b) == IF a < b THEN a ELSE b

\* socket.timeout is a subclass of socket.error.
IsSocketError(e) == e \in {"socket.error", "socket.timeout"}

\* raise Exception("flush_socket: maximum number of iterations reached")
LimitError == "flush_socket: maximum number of iterations reached"

\* The exceptions "except Exception" catches.
IsException(e) ==
    e \in {"socket.error", "socket.timeout", "AttributeError", "TypeError",
           "ValueError", LimitError}

\* The number of entries of the call sequence cs that are fn.
Count(cs, fn) == Cardinality({i \in 1..Len(cs) : cs[i] = fn})

\* SerialSocketEmulator.__init__: self._sock = None.
AdapterInit ==
    /\ sock = 0
    /\ socks = [s \in Sockets |-> "none"]
    /\ op = "none"
    /\ arg = "None"
    /\ env = "None"
    /\ ret = "None"
    /\ exc = "none"
    /\ calls = <<>>
    /\ accepted = <<>>
    /\ logs = <<>>

\* The socket that socket.socket() creates next.
NextId == 1 + Cardinality({s \in Sockets : socks[s] # "none"})

\* As open, closing the socket held only if it is connected.
openClosesConnectedOnly(h, ss, ok) ==
    LET shut == h # 0 /\ ss[h] = "connected"
        old  == IF shut THEN [ss EXCEPT ![h] = "closed"] ELSE ss
        id   == 1 + Cardinality({s \in Sockets : ss[s] # "none"})
    IN  [sock  |-> id,
         socks |-> [old EXCEPT ![id] = IF ok THEN "connected" ELSE "unconnected"],
         calls |-> (IF shut THEN <<"close">> ELSE <<>>)
                      \o <<"socket", "settimeout", "connect">>,
         logs  |-> IF ok THEN <<>> ELSE <<"warning">>,
         exc   |-> "none"]

\* open(): closes the socket held, creates one, sets its timeout and tries to
\* connect; a failed connection is logged as a warning and the new socket is
\* kept. ok is whether connect() succeeds.
open(h, ss, ok) ==
    LET old == IF h # 0 THEN [ss EXCEPT ![h] = "closed"] ELSE ss
        id  == 1 + Cardinality({s \in Sockets : ss[s] # "none"})
    IN  [sock  |-> id,
         socks |-> [old EXCEPT ![id] = IF ok THEN "connected" ELSE "unconnected"],
         calls |-> (IF h # 0 THEN <<"close">> ELSE <<>>)
                      \o <<"socket", "settimeout", "connect">>,
         logs  |-> IF ok THEN <<>> ELSE <<"warning">>,
         exc   |-> "none"]

\* As close, without "self._sock = None": the closed socket stays held.
closeKeepsHandle(h, ss) ==
    IF h # 0
    THEN [sock |-> h, socks |-> [ss EXCEPT ![h] = "closed"],
          calls |-> <<"close">>, exc |-> "none"]
    ELSE [sock |-> 0, socks |-> ss, calls |-> <<>>, exc |-> "none"]

\* close(): closes and forgets the socket held, if any.
close(h, ss) ==
    IF h # 0
    THEN [sock |-> 0, socks |-> [ss EXCEPT ![h] = "closed"],
          calls |-> <<"close">>, exc |-> "none"]
    ELSE [sock |-> 0, socks |-> ss, calls |-> <<>>, exc |-> "none"]

\* What self._sock.recv(bufsize) can do: None has no recv, a negative size
\* is a ValueError, a socket that is not connected fails, a connected one
\* delivers at most bufsize bytes (none at end of stream), times out or fails.
RecvOutcomes(h, ss, bufsize) ==
    IF h = 0 THEN {[raise |-> "AttributeError", data |-> <<>>]}
    ELSE IF bufsize < 0 THEN {[raise |-> "ValueError", data |-> <<>>]}
    ELSE IF ss[h] # "connected" THEN {[raise |-> "socket.error", data |-> <<>>]}
    ELSE {[raise |-> "none", data |-> d] : d \in Strings(Min(bufsize, MaxLen))}
            \cup {[raise |-> e, data |-> <<>>] :
                      e \in {"socket.timeout", "socket.error"}}

\* As read, without the "except Exception" clause: only socket errors are
\* caught.
readSocketErrorsOnly(o) ==
    IF o.raise = "none"
    THEN [ret |-> o.data, exc |-> "none", logs |-> <<>>]
    ELSE IF IsSocketError(o.raise)
    THEN [ret |-> <<>>, exc |-> "none", logs |-> <<"warning">>]
    ELSE [ret |-> "None", exc |-> o.raise, logs |-> <<>>]

\* read(bufsize), o being what recv did: the bytes received, or '' after a
\* socket error (logged as a warning) or any other Exception (logged as an
\* error).
read(o) ==
    IF o.raise = "none"
    THEN [ret |-> o.data, exc |-> "none", logs |-> <<>>]
    ELSE IF IsSocketError(o.raise)
    THEN [ret |-> <<>>, exc |-> "none", logs |-> <<"warning">>]
    ELSE IF IsException(o.raise)
    THEN [ret |-> <<>>, exc |-> "none", logs |-> <<"error">>]
    ELSE [ret |-> "None", exc |-> o.raise, logs |-> <<>>]

\* One send(): n bytes accepted, or an exception.
Sent(n) == [raise |-> "none", n |-> n]
SendFails(e) == [raise |-> e, n |-> 0]

\* What the sends on a connected socket can do while n bytes are left: each
\* accepts between 1 byte and all that is left, or fails.
RECURSIVE SendRuns(_)
SendRuns(n) ==
    IF n = 0 THEN {<<>>}
    ELSE {<<SendFails("socket.error")>>}
            \cup UNION {{<<Sent(k)>> \o r : r \in SendRuns(n - k)} : k \in 1..n}

\* What the sends of write(string) can do.
SendScripts(h, ss, string) ==
    IF Len(string) = 0 THEN {<<>>}
    ELSE IF h = 0 THEN {<<SendFails("AttributeError")>>}
    ELSE IF ss[h] # "connected" THEN {<<SendFails("socket.error")>>}
    ELSE SendRuns(Len(string))

\* As write_loop, with send(string) for send(string[bytesReallySent:]): every
\* send starts again at the first byte.
RECURSIVE write_loop_unsliced(_, _, _, _)
write_loop_unsliced(string, bytesReallySent, script, chunks) ==
    IF bytesReallySent < Len(string)
    THEN LET o   == Head(script)
             buf == string
         IN  IF o.raise # "none"
             THEN [raise |-> o.raise, sent |-> bytesReallySent, chunks |-> chunks]
             ELSE write_loop_unsliced(string, bytesReallySent + o.n, Tail(script),
                                      Append(chunks, SubSeq(buf, 1, o.n)))
    ELSE [raise |-> "none", sent |-> bytesReallySent, chunks |-> chunks]

\* write: "while bytesReallySent < len(string):
\*            bytesReallySent += self._sock.send(string[bytesReallySent:])"
\* script being what the successive sends do.
RECURSIVE write_loop(_, _, _, _)
write_loop(string, bytesReallySent, script, chunks) ==
    IF bytesReallySent < Len(string)
    THEN LET o   == Head(script)
             buf == SubSeq(string, bytesReallySent + 1, Len(string))
         IN  IF o.raise # "none"
             THEN [raise |-> o.raise, sent |-> bytesReallySent, chunks |-> chunks]
             ELSE write_loop(string, bytesReallySent + o.n, Tail(script),
                             Append(chunks, SubSeq(buf, 1, o.n)))
    ELSE [raise |-> "none", sent |-> bytesReallySent, chunks |-> chunks]

\* As write, without the two except clauses: what send raises reaches the
\* caller.
writeUncaught(string, script) ==
    LET r == write_loop(string, 0, script, <<>>)
    IN  [chunks |-> r.chunks,
         sends  |-> [i \in 1..(Len(r.chunks) + (IF r.raise = "none" THEN 0 ELSE 1))
                        |-> "send"],
         exc    |-> r.raise,
         logs   |-> <<>>]

\* write(string): the loop, with a socket error logged as a warning and any
\* other Exception logged as an error; nothing is raised or returned.
write(string, script) ==
    LET r == write_loop(string, 0, script, <<>>)
    IN  [chunks |-> r.chunks,
         sends  |-> [i \in 1..(Len(r.chunks) + (IF r.raise = "none" THEN 0 ELSE 1))
                        |-> "send"],
         exc    |-> IF r.raise = "none" \/ IsException(r.raise)
                    THEN "none" ELSE r.raise,
         logs   |-> IF r.raise = "none" THEN <<>>
                    ELSE IF IsSocketError(r.raise) THEN <<"warning">>
                    ELSE IF IsException(r.raise) THEN <<"error">>
                    ELSE <<>>]

\* What up to n successive polls of a connected socket can report: "data"
\* (readable, recv succeeds) until an "idle" (select finds nothing to read) or
\* an "error" (readable, recv fails), after either of which the flush polls
\* no more.
RECURSIVE PollRuns(_)
PollRuns(n) ==
    IF n = 0 THEN {<<>>}
    ELSE {<<"idle">>, <<"error">>}
            \cup {<<"data">> \o r : r \in PollRuns(n - 1)}

\* What the polls of one flush can report. A socket that is not connected
\* delivers nothing.
PollScripts(h, ss) ==
    IF h # 0 /\ ss[h] = "connected"
    THEN PollRuns(MaxPolls)
    ELSE {<<"idle">>, <<"error">>}

\* As flush_loop, with the test "cnt > lim" for "cnt >= lim".
RECURSIVE flush_loop_late(_, _, _, _, _)
flush_loop_late(script, lim, cnt, polls, cs) ==
    IF script = <<>> \/ Head(script) = "idle"
    THEN [raise |-> "none",
          polls |-> IF script = <<>> THEN polls ELSE Append(polls, "idle"),
          calls |-> Append(cs, "select")]
    ELSE IF Head(script) = "error"
    THEN [raise |-> "socket.error", polls |-> Append(polls, "error"),
          calls |-> cs \o <<"select", "recv">>]
    ELSE IF lim > 0 /\ cnt + 1 > lim
    THEN [raise |-> LimitError, polls |-> Append(polls, "data"),
          calls |-> cs \o <<"select", "recv">>]
    ELSE flush_loop_late(Tail(script), lim, IF lim > 0 THEN cnt + 1 ELSE cnt,
                         Append(polls, "data"), cs \o <<"select", "recv">>)

\* flush_socket, the loop "while 1": select; nothing readable ends it; else
\* recv(1024), and with lim > 0 the count of iterations is raised and the
\* iteration-limit error follows as soon as it has reached lim. script is
\* what the successive polls report (nothing once it is used up).
RECURSIVE flush_loop(_, _, _, _, _)
flush_loop(script, lim, cnt, polls, cs) ==
    IF script = <<>> \/ Head(script) = "idle"
    THEN [raise |-> "none",
          polls |-> IF script = <<>> THEN polls ELSE Append(polls, "idle"),
          calls |-> Append(cs, "select")]
    ELSE IF Head(script) = "error"
    THEN [raise |-> "socket.error", polls |-> Append(polls, "error"),
          calls |-> cs \o <<"select", "recv">>]
    ELSE IF lim > 0 /\ cnt + 1 >= lim
    THEN [raise |-> LimitError, polls |-> Append(polls, "data"),
          calls |-> cs \o <<"select", "recv">>]
    ELSE flush_loop(Tail(script), lim, IF lim > 0 THEN cnt + 1 ELSE cnt,
                    Append(polls, "data"), cs \o <<"select", "recv">>)

\* flush_socket(socks, lim): select.select([None], ...) is a TypeError.
flush_socket(h, script, lim) ==
    IF h = 0
    THEN [raise |-> "TypeError", polls |-> <<>>, calls |-> <<"select">>]
    ELSE flush_loop(script, lim, 0, <<>>, <<>>)

\* What the socket would report at the poll after those a flush has made.
NextPoll(script, polls) ==
    IF Len(polls) < Len(script) THEN script[Len(polls) + 1] ELSE "idle"

\* open()
Open ==
    /\ NextId <= MaxSockets
    /\ \E ok \in BOOLEAN :
          LET r == open(sock, socks, ok)
          IN  /\ sock' = r.sock
              /\ socks' = r.socks
              /\ calls' = r.calls
              /\ logs' = r.logs
              /\ env' = [connect |-> ok]
              /\ exc' = r.exc
    /\ op' = "open"
    /\ arg' = "None"
    /\ ret' = "None"
    /\ accepted' = <<>>
    /\ UNCHANGED <<workerVars, lockVars, crcVars>>

\* close()
Close ==
    /\ LET r == close(sock, socks)
       IN  /\ sock' = r.sock
           /\ socks' = r.socks
           /\ calls' = r.calls
           /\ exc' = r.exc
    /\ op' = "close"
    /\ arg' = "None"
    /\ env' = "None"
    /\ ret' = "None"
    /\ accepted' = <<>>
    /\ logs' = <<>>
    /\ UNCHANGED <<workerVars, lockVars, crcVars>>

\* read(bufsize)
Read ==
    /\ \E bufsize \in (-1)..MaxLen :
       \E o \in RecvOutcomes(sock, socks, bufsize) :
          LET r == read(o)
          IN  /\ arg' = bufsize
              /\ env' = o
              /\ ret' = r.ret
              /\ exc' = r.exc
              /\ logs' = r.logs
              /\ calls' = IF sock = 0 THEN <<>> ELSE <<"recv">>
    /\ op' = "read"
    /\ accepted' = <<>>
    /\ UNCHANGED <<sock, socks>>
    /\ UNCHANGED <<workerVars, lockVars, crcVars>>

\* write(string)
Write ==
    /\ \E string \in Strings(MaxLen) :
       \E script \in SendScripts(sock, socks, string) :
          LET r == write(string, script)
          IN  /\ arg' = string
              /\ env' = script
              /\ exc' = r.exc
              /\ logs' = r.logs
              /\ calls' = IF sock = 0 THEN <<>> ELSE r.sends
              /\ accepted' = r.chunks
    /\ op' = "write"
    /\ ret' = "None"
    /\ UNCHANGED <<sock, socks>>
    /\ UNCHANGED <<workerVars, lockVars, crcVars>>

\* As IsOpen, answering whether a connected socket is held.
IsOpenConnected ==
    /\ op' = "isOpen"
    /\ ret' = (sock # 0 /\ socks[sock] = "connected")
    /\ arg' = "None"
    /\ env' = "None"
    /\ exc' = "none"
    /\ calls' = <<>>
    /\ accepted' = <<>>
    /\ logs' = <<>>
    /\ UNCHANGED <<sock, socks>>
    /\ UNCHANGED <<workerVars, lockVars, crcVars>>

\* isOpen(): "return False"
IsOpen ==
    /\ op' = "isOpen"
    /\ ret' = FALSE
    /\ arg' = "None"
    /\ env' = "None"
    /\ exc' = "none"
    /\ calls' = <<>>
    /\ accepted' = <<>>
    /\ logs' = <<>>
    /\ UNCHANGED <<sock, socks>>
    /\ UNCHANGED <<workerVars, lockVars, crcVars>>

\* As FlushInput, with an except clause that only logs: no open().
FlushInputLogsOnly ==
    /\ \E script \in PollScripts(sock, socks) :
          LET f == flush_socket(sock, script, FlushLimit)
          IN  /\ env' = [polls |-> f.polls, raised |-> f.raise,
                          next |-> NextPoll(script, f.polls)]
              /\ calls' = f.calls
              /\ logs' = IF f.raise = "none" THEN <<>> ELSE <<"error">>
              /\ exc' = "none"
    /\ op' = "flushInput"
    /\ arg' = "None"
    /\ ret' = "None"
    /\ accepted' = <<>>
    /\ UNCHANGED <<sock, socks>>
    /\ UNCHANGED <<workerVars, lockVars, crcVars>>

\* flushInput(): flush_socket(self._sock, 3); any Exception it raises is
\* logged as an error and answered by self.open().
FlushInput ==
    /\ \E script \in PollScripts(sock, socks), ok \in BOOLEAN :
          LET f == flush_socket(sock, script, FlushLimit)
          IN  IF f.raise = "none"
              THEN /\ env' = [polls |-> f.polls, raised |-> "none",
                               next |-> NextPoll(script, f.polls)]
                   /\ calls' = f.calls
                   /\ logs' = <<>>
                   /\ exc' = "none"
                   /\ UNCHANGED <<sock, socks>>
              ELSE IF IsException(f.raise)
              THEN /\ NextId <= MaxSockets
                   /\ LET r == open(sock, socks, ok)
                      IN  /\ sock' = r.sock
                          /\ socks' = r.socks
                          /\ calls' = f.calls \o r.calls
                          /\ logs' = <<"error">> \o r.logs
                          /\ env' = [polls |-> f.polls, raised |-> f.raise,
                                      next |-> NextPoll(script, f.polls),
                                      connect |-> ok]
                          /\ exc' = r.exc
              ELSE /\ env' = [polls |-> f.polls, raised |-> f.raise,
                               next |-> NextPoll(script, f.polls)]
                   /\ calls' = f.calls
                   /\ logs' = <<>>
                   /\ exc' = f.raise
                   /\ UNCHANGED <<sock, socks>>
    /\ op' = "flushInput"
    /\ arg' = "None"
    /\ ret' = "None"
    /\ accepted' = <<>>
    /\ UNCHANGED <<workerVars, lockVars, crcVars>>

\* flushOutput(): "pass"
FlushOutput ==
    /\ op' = "flushOutput"
    /\ arg' = "None"
    /\ env' = "None"
    /\ ret' = "None"
    /\ exc' = "none"
    /\ calls' = <<>>
    /\ accepted' = <<>>
    /\ logs' = <<>>
    /\ UNCHANGED <<sock, socks>>
    /\ UNCHANGED <<workerVars, lockVars, crcVars>>

AdapterNext ==
    \/ Open
    \/ Close
    \/ Read
    \/ Write
    \/ IsOpen
    \/ FlushInput
    \/ FlushOutput

\* ------------------------------------------------ calculate_crc, swap_bytes
\* The byte values and the 16-bit words the functions are applied to.
CrcBytes == {0, 1, 3}
Words == {4660, 65535}

\* a ^ b on non-negative integers.
RECURSIVE Xor(_, _)
Xor(a, b) ==
    IF a = 0 THEN b
    ELSE IF b = 0 THEN a
    ELSE (((a % 2) + (b % 2)) % 2) + (2 * Xor(a \div 2, b \div 2))

\* As swap_bytes, returning the word as it is.
swap_bytes_not(word_val) ==
    word_val

\* swap_bytes: "msb = word_val >> 8; lsb = word_val % 256;
\*              return (lsb << 8) + msb"
swap_bytes(word_val) ==
    LET msb == word_val \div 256
        lsb == word_val % 256
    IN  (lsb * 256) + msb

\* "for j in xrange(8): tmp = crc & 1; crc = crc >> 1;
\*                      if tmp: crc = crc ^ 0xA001", from iteration j on.
RECURSIVE crc_shift(_, _)
crc_shift(crc, j) ==
    IF j < 8
    THEN IF (crc % 2) # 0
         THEN crc_shift(Xor(crc \div 2, 40961), j + 1)
         ELSE crc_shift(crc \div 2, j + 1)
    ELSE crc

\* "for i in data: crc = crc ^ ord(i); <the eight shifts>"
RECURSIVE crc_loop(_, _)
crc_loop(data, crc) ==
    IF data = <<>> THEN crc
    ELSE crc_loop(Tail(data), crc_shift(Xor(crc, Head(data)), 0))

\* calculate_crc: "crc = 0xFFFF; <the loop>; return swap_bytes(crc)"
calculate_crc(data) ==
    swap_bytes(crc_loop(data, 65535))

CrcInit ==
    /\ crcData = <<>>
    /\ crcRet = calculate_crc(<<>>)
    /\ swapArg = 0
    /\ swapRet = swap_bytes(0)
    /\ swapBack = swap_bytes(swap_bytes(0))

\* calculate_crc applied to the last sequence with one more byte.
CalculateCrc ==
    /\ Len(crcData) < MaxData
    /\ \E b \in CrcBytes :
          /\ crcData' = Append(crcData, b)
          /\ crcRet' = calculate_crc(crcData')
    /\ UNCHANGED <<swapArg, swapRet, swapBack>>
    /\ UNCHANGED <<workerVars, lockVars, adapterVars>>

\* swap_bytes applied to a word and again to its result.
SwapBytes ==
    /\ \E w \in Words :
          /\ swapArg' = w
          /\ swapRet' = swap_bytes(w)
          /\ swapBack' = swap_bytes(swapRet')
    /\ UNCHANGED <<crcData, crcRet>>
    /\ UNCHANGED <<workerVars, lockVars, adapterVars>>

CrcNext == CalculateCrc \/ SwapBytes

\* -------------------------------------------------------------- composition
Init == WorkerInit /\ LockInit /\ AdapterInit /\ CrcInit

Next == WorkerNext \/ ReentrantNext \/ AdapterNext \/ CrcNext

\* calculate_crc over every byte sequence, swap_bytes over the words.
SpecCrc == Init /\ [][CrcNext]_vars

\* Any callers, any interleaving of start() and stop() with the worker.
SpecWorker == Init /\ [][WorkerNext]_vars

\* Threads that call the one wrapped function, each once.
SpecLock == Init /\ [][LockNext]_vars

\* Threads that call the one wrapped function, which may call it again.
SpecReentrant == Init /\ [][ReentrantNext]_vars

\* One thread calling the operations of one adapter in any order.
SpecAdapter == Init /\ [][AdapterNext]_vars

Spec == Init /\ [][Next]_vars

\* One caller that calls start() and, as soon as it returned, stop().
SeqCaller ==
    \/ ncalls = 0 /\ StartSetGo(1)
    \/ StartThread(1)
    \/ ncalls = 1 /\ StopCheck(1)
    \/ StopClear(1)
    \/ StopJoin(1)

SeqRun == \E w \in Workers : RunStep(w)

SeqNext == SeqCaller \/ SeqRun

\* The scheduler is fair to the caller and to the worker thread, and every
\* call of init_fct, main_fct and exit_fct returns or raises.
SpecStartStop ==
    Init /\ [][SeqNext]_vars /\ WF_vars(SeqCaller) /\ WF_vars(SeqRun)

\* ------------------------------------------------------------------ claims

\* A step that begins an invocation of main_fct.
MainInvoked == mainCalls' # mainCalls

\* exit_fct, if provided, has been called and has come back.
ExitCompleted ==
    fcts[3] => (exitCalls >= 1 /\ \A w \in Workers : wpc[w] # "in_exit")

\* How often exit_fct is to be called for one started thread.
ExitDue == IF fcts[3] THEN 1 ELSE 0

\* C1 as stated: once any call to stop() has returned, main_fct is never
\* invoked again and exit_fct (if provided) has completed.
C1_AnyStopEndsWorker ==
    [][(stopsReturned # {}) => (~MainInvoked /\ ExitCompleted')]_vars

\* C1 amended: once a call to stop() made after the worker thread was started
\* has returned, main_fct is never invoked again and exit_fct (if provided)
\* has completed.
C1_StopAfterStartEndsWorker ==
    [][(\E r \in stopsReturned' : r.started)
          => (~MainInvoked /\ ExitCompleted')]_vars

\* C1 witness: a stop() that found the thread alive has returned after
\* main_fct and exit_fct ran.
C1_Witness ==
    /\ \E r \in stopsReturned : r.alive
    /\ mainCalls >= 1
    /\ fcts[3] /\ exitCalls = 1

\* C2: init_fct completes before the first call of main_fct, every call of
\* main_fct completes before exit_fct begins, and main_fct is never invoked
\* once exit_fct has started.
C2_InitMainExitOrder ==
    /\ \A w \in Workers :
          wpc[w] = "in_init" => (mainCalls = 0 /\ exitCalls = 0)
    /\ \A w \in Workers :
          wpc[w] = "in_main" =>
             /\ fcts[1] => initCalls = 1
             /\ exitCalls = 0
             /\ \A v \in Workers : wpc[v] # "in_init"
    /\ \A w \in Workers :
          wpc[w] = "in_exit" =>
             \A v \in Workers : wpc[v] \notin {"in_init", "in_main"}
    /\ initCalls <= 1

\* C2 witness: exit_fct is running after init_fct and two calls of main_fct.
C2_Witness ==
    /\ \E w \in Workers : wpc[w] = "in_exit"
    /\ fcts[1] /\ initCalls = 1
    /\ mainCalls >= 2

\* C3: once the started thread has terminated, exit_fct (if provided) has
\* been invoked exactly once, however the loop ended; it is never invoked
\* twice.
C3_ExitExactlyOnce ==
    /\ exitCalls <= 1
    /\ thread = "stopped" => exitCalls = ExitDue

\* C3 witness: the thread has terminated after init_fct raised, and exit_fct
\* has run once.
C3_Witness ==
    /\ thread = "stopped"
    /\ loopEnd = "init"
    /\ fcts[3] /\ exitCalls = 1

\* Reachability of the other two ways the loop ends.
C3_WitnessMainRaised ==
    thread = "stopped" /\ loopEnd = "main" /\ fcts[3] /\ exitCalls = 1

C3_WitnessFlagCleared ==
    thread = "stopped" /\ loopEnd = "flag" /\ fcts[3] /\ exitCalls = 1
       /\ mainCalls >= 1

\* The caller of SpecStartStop is back from stop().
SeqDone == ncalls = 2 /\ cpc[1] = "idle"

\* C4: start() followed at once by stop(), under a fair scheduler and with
\* callables that come back: stop() eventually returns, and exit_fct (if
\* provided) has then run exactly once.
C4_StartStopTerminates ==
    /\ <>SeqDone
    /\ [](SeqDone => (cres[1] = "returned" /\ exitCalls = ExitDue
                       /\ thread = "stopped"))

\* C4 witness: stop() has returned after main_fct raised on its first
\* invocation, and exit_fct has run once.
C4_Witness ==
    /\ SeqDone
    /\ loopEnd = "main" /\ mainCalls = 1
    /\ fcts[3] /\ exitCalls = 1

\* C5: after init_fct or main_fct raised, main_fct is never invoked again;
\* no caller of start() or stop() receives the exception, and a stop() call
\* that returns returns normally.
C5_RaiseEndsLoop ==
    [][/\ loopEnd \in {"init", "main"} => ~MainInvoked
       /\ \A c \in Callers : cres'[c] \notin ExcKinds
       /\ \A c \in Callers :
             (cpc[c] \in {"stop_join"} /\ cpc'[c] = "idle")
                => cres'[c] = "returned"]_vars

\* C5 witness: main_fct raised with the run-flag still set, and a stop()
\* made after that has returned.
C5_Witness ==
    /\ loopEnd = "main"
    /\ go
    /\ \E r \in stopsReturned : r.failed
    /\ \A c \in Callers : cres[c] \in {"none", "returned"}

\* Threads of control inside _run.
Running == {w \in Workers : wpc[w] \notin {"unborn", "done"}}

\* C6: whatever start() and stop() calls are made, at most one thread of
\* control executes _run, so at most one invocation of main_fct is in
\* progress.
C6_SingleRunner ==
    /\ Cardinality(Running) <= 1
    /\ Cardinality({w \in Workers : wpc[w] = "in_main"}) <= 1
    /\ spawned <= 1

\* C6 witness: main_fct is in progress after a second start() and after a
\* stop() that returned.
C6_Witness ==
    /\ \E w \in Workers : wpc[w] = "in_main"
    /\ \E c \in Callers : cres[c] = "RuntimeError"
    /\ stopsReturned # {}

\* Threads inside the body of the wrapped function.
InFcn == {t \in Threads : tpc[t] \in {"read", "write"}}

\* Every thread is back from its call of new().
AllDone == \A t \in Threads : tpc[t] = "done"

\* C7: at most one thread is inside the wrapped function at a time, and when
\* every thread has made its one call the counter equals the number of calls
\* that returned: NumThreads when none raised.
C7_NoLostUpdate ==
    /\ Cardinality(InFcn) <= 1
    /\ AllDone => counter = Cardinality({t \in Threads : tres[t] = "returned"})
    /\ (AllDone /\ \A t \in Threads : fexc[t] = "none") => counter = NumThreads

\* C7 witness: all threads have returned and the counter is NumThreads.
C7_Witness ==
    /\ AllDone
    /\ \A t \in Threads : tres[t] = "returned"
    /\ counter = NumThreads

\* C8: a thread whose call of new() has returned or raised does not hold the
\* lock, a held lock belongs to a thread still inside new(), and what fcn
\* raised is what the caller got.
C8_LockFreeOnExit ==
    /\ \A t \in Threads :
          tpc[t] = "done" =>
             /\ holder # t
             /\ tres[t] = Outcome(fexc[t])
    /\ locked =>
          /\ holder \in Threads
          /\ tpc[holder] \in {"read", "write", "except", "finally"}

\* C8 witness: one thread's call has raised and another thread has since
\* acquired the lock and is inside the wrapped function.
C8_Witness ==
    \E t \in Threads, u \in Threads :
       /\ tpc[t] = "done" /\ tres[t] = "Exception"
       /\ holder = u /\ tpc[u] \in {"read", "write"}

\* C9: read never raises to its caller; without a socket, on a socket that
\* is not connected and when recv times out or fails it returns the empty
\* string, and what it returns non-empty is what the socket delivered.
C9_ReadNeverRaises ==
    op = "read" =>
       /\ exc = "none"
       /\ (sock = 0 \/ socks[sock] # "connected") => ret = <<>>
       /\ env.raise # "none" => ret = <<>>
       /\ ret # <<>> => (env.raise = "none" /\ ret = env.data
                           /\ Len(ret) <= arg)

\* C9 witness: a read on an adapter that was opened and closed again has
\* returned the empty string.
C9_Witness ==
    /\ op = "read"
    /\ sock = 0 /\ \E s \in Sockets : socks[s] = "closed"
    /\ env.raise = "AttributeError"
    /\ ret = <<>> /\ exc = "none"

\* Reachability of the other cases of C9: a failed connection, a timeout,
\* bytes delivered.
C9_WitnessUnconnected ==
    op = "read" /\ sock # 0 /\ socks[sock] = "unconnected" /\ ret = <<>>

C9_WitnessTimeout ==
    op = "read" /\ env.raise = "socket.timeout" /\ ret = <<>>

C9_WitnessData ==
    op = "read" /\ Len(ret) = MaxLen

\* The last operation was a flushInput() during which every poll of the
\* socket reported data and every recv succeeded.
PendingAtEveryPoll ==
    /\ op = "flushInput"
    /\ env.polls # <<>>
    /\ \A i \in 1..Len(env.polls) : env.polls[i] = "data"

\* C10 as stated: on a socket that reports pending data at every poll,
\* flushInput() ends after at most 3 recv calls and raises the
\* iteration-limit error to its caller.
C10_LimitReachesCaller ==
    PendingAtEveryPoll =>
       (Count(calls, "recv") <= FlushLimit /\ exc = LimitError)

\* C10 amended: on such a socket flushInput() ends after exactly 3 recv
\* calls; flush_socket raises the iteration-limit error, which flushInput()
\* catches, logs as an error and answers by one open(); nothing is raised to
\* the caller of flushInput().
C10_LimitCaughtAndReopened ==
    PendingAtEveryPoll =>
       /\ Count(calls, "recv") = FlushLimit
       /\ Count(calls, "select") = FlushLimit
       /\ env.raised = LimitError
       /\ exc = "none"
       /\ Head(logs) = "error"
       /\ Count(calls, "socket") = 1

\* C10 witness: a flushInput() that found data at each of its 3 polls.
C10_Witness ==
    PendingAtEveryPoll /\ Len(env.polls) = FlushLimit

\* The adapter holds a socket whose connection attempt failed.
Unconnected == sock # 0 /\ socks[sock] = "unconnected"

\* C11: an open() whose connection attempt fails returns without raising and
\* leaves a socket that is not connected; while the adapter holds it, every
\* read() returns the empty string and every write() gets nothing accepted by
\* the socket, and neither raises.
C11_FailedOpenIsQuiet ==
    /\ (op = "open" /\ ~env.connect) =>
          (exc = "none" /\ Unconnected /\ logs = <<"warning">>)
    /\ (op = "read" /\ Unconnected) =>
          (exc = "none" /\ ret = <<>> /\ logs \in {<<"warning">>, <<"error">>})
    /\ (op = "write" /\ Unconnected) =>
          /\ exc = "none"
          /\ accepted = <<>>
          /\ arg # <<>> => logs = <<"warning">>

\* C11 witness: a write of a non-empty string after a failed open() has sent
\* nothing and logged a warning.
C11_Witness ==
    /\ op = "write" /\ Unconnected
    /\ arg # <<>>
    /\ accepted = <<>> /\ logs = <<"warning">> /\ exc = "none"

\* Reachability of the read after a failed open().
C11_WitnessRead ==
    op = "read" /\ Unconnected /\ ret = <<>> /\ exc = "none"

\* The bytes of the chunks, in order.
RECURSIVE Concat(_)
Concat(chunks) ==
    IF chunks = <<>> THEN <<>> ELSE Head(chunks) \o Concat(Tail(chunks))

\* C12: whatever the payload and however many bytes each send accepts, a
\* write() that met no error has called send once per accepted chunk, every
\* chunk is non-empty, and the chunks in order are the payload, each byte once;
\* a write() that met an error has sent a prefix of the payload.
C12_WriteSendsPayloadOnce ==
    op = "write" =>
       /\ \A i \in 1..Len(accepted) : accepted[i] # <<>>
       /\ Len(Concat(accepted)) <= Len(arg)
       /\ Concat(accepted) = SubSeq(arg, 1, Len(Concat(accepted)))
       /\ logs = <<>> =>
             /\ Concat(accepted) = arg
             /\ Count(calls, "send") = Len(accepted)

\* C12 witness: a payload of MaxLen bytes went out one byte per send.
C12_Witness ==
    /\ op = "write" /\ logs = <<>>
    /\ Len(arg) = MaxLen
    /\ Len(accepted) = MaxLen
    /\ arg[1] # arg[MaxLen]
    /\ Concat(accepted) = arg

\* C13: isOpen() answers False whatever the state, a connected socket
\* included, and leaves the socket handle and every socket as they were.
C13_IsOpenAlwaysFalse ==
    [][op' = "isOpen" =>
          (ret' = FALSE /\ exc' = "none" /\ calls' = <<>>
              /\ sock' = sock /\ socks' = socks)]_vars

\* C13 witness: isOpen() has answered False while the adapter holds a
\* connected socket.
C13_Witness ==
    /\ op = "isOpen" /\ ret = FALSE
    /\ sock # 0 /\ socks[sock] = "connected"

\* C14: close() leaves no handle and the socket it held closed; with no
\* handle it performs no socket operation, raises nothing and changes no
\* socket.
C14_CloseIdempotent ==
    [][op' = "close" =>
          /\ sock' = 0
          /\ exc' = "none"
          /\ sock # 0 =>
                /\ calls' = <<"close">>
                /\ socks' = [socks EXCEPT ![sock] = "closed"]
          /\ sock = 0 => (calls' = <<>> /\ socks' = socks)]_vars

\* C14 witness: a close() found no handle after an earlier close() had closed
\* a socket, and touched nothing.
C14_Witness ==
    /\ op = "close" /\ calls = <<>> /\ sock = 0 /\ exc = "none"
    /\ \E s \in Sockets : socks[s] = "closed"

\* Reachability of the close() of an adapter that was never opened.
C14_WitnessNeverOpened ==
    /\ op = "close" /\ calls = <<>> /\ sock = 0
    /\ \A s \in Sockets : socks[s] = "none"

\* v with bit k (of weight 2^k) inverted.
Toggle(v, k) ==
    IF ((v \div (2 ^ k)) % 2) = 1 THEN v - (2 ^ k) ELSE v + (2 ^ k)

\* The reference CRC-16 register after the n low bits of byte, least
\* significant first: each message bit is combined with the bit shifted out of
\* the register, and the polynomial 0xA001 (bits 15, 13 and 0) is added when
\* the two differ.
RECURSIVE RefByte(_, _, _)
RefByte(acc, byte, n) ==
    IF n = 0 THEN acc
    ELSE IF (acc % 2) # (byte % 2)
    THEN RefByte(Toggle(Toggle(Toggle(acc \div 2, 15), 13), 0), byte \div 2, n - 1)
    ELSE RefByte(acc \div 2, byte \div 2, n - 1)

\* The reference CRC-16 register after the bytes of data.
RECURSIVE RefCrc(_, _)
RefCrc(data, acc) ==
    IF data = <<>> THEN acc
    ELSE RefCrc(Tail(data), RefByte(acc, Head(data), 8))

\* C15: calculate_crc returns a 16-bit value whose high byte is the low byte
\* of the reference CRC-16 of the sequence and whose low byte is its high
\* byte; for the empty sequence that is 0xFFFF, for the request
\* 01 03 00 00 00 01 it is 0x840A; swap_bytes applied twice to a 16-bit word
\* gives the word back.
C15_CrcIsSwappedReference ==
    /\ crcRet \in 0..65535
    /\ (crcRet \div 256) = (RefCrc(crcData, 65535) % 256)
    /\ (crcRet % 256) = (RefCrc(crcData, 65535) \div 256)
    /\ crcData = <<>> => crcRet = 65535
    /\ crcData = <<1, 3, 0, 0, 0, 1>> => crcRet = 33802
    /\ swapRet \in 0..65535
    /\ (swapRet \div 256) = (swapArg % 256)
    /\ (swapRet % 256) = (swapArg \div 256)
    /\ swapBack = swapArg

\* C15 witness: calculate_crc has been applied to a sequence of MaxData bytes
\* and returned a value whose two bytes differ, and swap_bytes to a word
\* whose two bytes differ.
C15_Witness ==
    /\ Len(crcData) = MaxData
    /\ (crcRet \div 256) # (crcRet % 256)
    /\ swapArg = 4660 /\ swapRet = 13330 /\ swapBack = 4660

\* Reachability of the request 01 03 00 00 00 01 and of its CRC.
C15_WitnessRequest ==
    crcData = <<1, 3, 0, 0, 0, 1>> /\ crcRet = 33802

\* The last operation was a flushInput() that made between 1 and 3 recv
\* calls, all successful, after which the socket had nothing pending.
DrainedWithinLimit ==
    /\ op = "flushInput"
    /\ \A i \in 1..Len(env.polls) : env.polls[i] # "error"
    /\ Count(calls, "recv") \in 1..FlushLimit
    /\ env.polls[Len(env.polls)] = "idle" \/ env.next = "idle"

\* The last operation was a flushInput() whose drain failed: no socket to
\* poll, or a recv that raised.
DrainFailed ==
    /\ op = "flushInput"
    /\ env.raised \in {"TypeError", "socket.error"}

\* The last operation was a flushInput() after whose third recv the socket
\* still had data pending.
PendingAfterLimit ==
    /\ PendingAtEveryPoll
    /\ Len(env.polls) = FlushLimit
    /\ env.next # "idle"

\* C16: a flushInput() that drains the socket in 1, 2 or exactly 3 recv calls
\* ends as a normal drain, with no iteration-limit error, nothing logged and
\* no open(); the error and reconnection path is taken only when data is
\* still pending after the third recv or when the drain fails.
C16_DrainWithinLimitIsNormal ==
    /\ DrainedWithinLimit =>
          (env.raised = "none" /\ logs = <<>> /\ Count(calls, "socket") = 0)
    /\ (op = "flushInput" /\ env.raised # "none") =>
          (PendingAfterLimit \/ DrainFailed)

\* C17: a flushInput() whose drain raises, the absent handle included, makes
\* one open() (one socket created, one connect) before it returns, and one
\* whose drain does not raise makes none; read() and write() never create or
\* connect a socket and leave the handle and every socket as they were.
C17_ReconnectOnlyFromFlush ==
    [][/\ op' = "flushInput" =>
             IF env'.raised # "none"
             THEN /\ Count(calls', "socket") = 1
                  /\ Count(calls', "connect") = 1
                  /\ sock' # 0 /\ sock' # sock
                  /\ socks[sock'] = "none"
             ELSE /\ Count(calls', "socket") = 0
                  /\ sock' = sock /\ socks' = socks
       /\ op' \in {"read", "write"} =>
             /\ Count(calls', "socket") = 0
             /\ Count(calls', "connect") = 0
             /\ sock' = sock /\ socks' = socks]_vars

\* C17 witness: a flushInput() without a handle has failed and opened a
\* socket.
C17_Witness ==
    /\ op = "flushInput" /\ env.raised = "TypeError"
    /\ Count(calls, "socket") = 1
    /\ sock # 0

\* Reachability of a failed write() that left the unconnected socket held.
C17_WitnessWriteFails ==
    /\ op = "write" /\ logs = <<"warning">>
    /\ Count(calls, "socket") = 0
    /\ sock # 0

\* A socket that was created and has not been closed.
Live(s) == socks[s] \in {"connected", "unconnected"}

\* C18: whatever open(), close() and flushInput() calls were made and whether
\* their connects succeeded, the only socket created and not closed is the one
\* the handle refers to; every open(), the one flushInput() makes included,
\* closes the socket held before it creates the next, also when that socket
\* never got connected.
C18_AtMostOneLiveSocket ==
    /\ [](\A s \in Sockets : Live(s) => s = sock)
    /\ [][(Count(calls', "socket") = 1 /\ sock # 0) =>
             /\ Head(SelectSeq(calls', LAMBDA c : c \in {"close", "socket"}))
                   = "close"
             /\ socks'[sock] = "closed"
             /\ sock' # sock]_vars

\* C18 witness: the last socket the model follows was opened after every
\* earlier one had been closed, the one before it by this open().
C18_Witness ==
    /\ sock = MaxSockets
    /\ Live(sock)
    /\ \A s \in Sockets \ {sock} : socks[s] = "closed"
    /\ Count(calls, "close") = 1 /\ Count(calls, "socket") = 1

\* Reachability of a flushInput() that replaced a socket whose connection
\* attempt had failed or broken.
C18_WitnessFlush ==
    /\ op = "flushInput" /\ env.raised = "socket.error"
    /\ Count(calls, "close") = 1
    /\ sock # 0 /\ Live(sock)

\* C19: a stop() that finds the thread not alive, before start() or after the
\* worker has terminated, returns in that same step and leaves the run flag,
\* the thread and every worker as they were; the start() that first starts
\* the thread finds the run flag set, whatever stop() calls came before, and
\* puts a worker at the beginning of _run.
C19_StopWhenNotAliveIsNoOp ==
    [][\A c \in Callers :
          /\ (StopCheck(c) /\ ~isAlive) =>
                /\ cpc'[c] = "idle" /\ cres'[c] = "returned"
                /\ go' = go /\ thread' = thread
                /\ wpc' = wpc /\ spawned' = spawned
          /\ (StartThread(c) /\ thread = "initial") =>
                /\ go
                /\ thread' = "started"
                /\ wpc'[spawned'] = "try"]_vars

\* C19 witness: a stop() returned before the thread was started, and the
\* worker started later has invoked main_fct.
C19_Witness ==
    /\ \E r \in stopsReturned : ~r.started
    /\ thread = "started"
    /\ mainCalls >= 1

\* Reachability of a stop() that returned after the worker had terminated.
C19_WitnessTerminated ==
    /\ \E r \in stopsReturned : r.started /\ ~r.alive
    /\ ~go

\* Thread t is inside a call of new() that fcn made while t was executing fcn
\* inside new(), and stands at lock.acquire().
Reentered(t) == tstack[t] # <<>> /\ tpc[t] = "acquire"

\* C20: a thread whose wrapped function calls the wrapped function again
\* stands at the inner lock.acquire() with the lock held by its own outer
\* call, and stays there for ever: the lock is never released and no thread
\* acquires it again.
C20_ReentryDeadlocks ==
    /\ [](\A t \in Threads :
             tstack[t] # <<>> => (Reentered(t) /\ locked /\ holder = t))
    /\ [][\A t \in Threads :
             Reentered(t) =>
                /\ tpc'[t] = "acquire" /\ tstack'[t] = tstack[t]
                /\ locked' /\ holder' = t
                /\ \A u \in Threads : tpc'[u] = "read" => tpc[u] = "read"]_vars

\* C20 witness: one thread stands at the inner acquire() and every other
\* thread at its own acquire(); no step is possible.
C20_Witness ==
    /\ \E t \in Threads :
          /\ Reentered(t) /\ locked /\ holder = t
          /\ \A u \in Threads \ {t} : tpc[u] = "acquire" /\ tstack[u] = <<>>
    /\ ~ENABLED ReentrantNext

=============================================================================
